---- MODULE Spec2Model ----
(***************************************************************************)
(* A model of the AppScale AppDashboard (src/AppDashboard/dashboard.py):   *)
(* the log ingestion handler (LogUploadPage), the log viewer               *)
(* (LogServiceHostPage) with its cursor pagination, and the status cache   *)
(* refresh driven by task-queue tasks (StatusRefreshPage and the handlers  *)
(* that enqueue refreshes).                                                *)
(*                                                                         *)
(* Strings the program concatenates or compares character by character     *)
(* (service names, host names, datastore key names, url-safe cursors) are  *)
(* sequences of ASCII codes.  Python integers are unbounded; the values    *)
(* that exceed TLC's 32-bit integers (timestamps, 2**34) are kept as a     *)
(* pair [hi, lo] standing for hi * Million + lo with 0 <= lo < Million.    *)
(***************************************************************************)
EXTENDS Integers, Sequences, FiniteSets, Bags, TLC

(***************************************************************************)
(* Strings                                                                 *)
(***************************************************************************)

RECURSIVE StrLessFrom(_, _, _)
\* a < b, given that a and b agree before position i.
StrLessFrom(a, b, i) ==
  IF i > Len(b) THEN FALSE
  ELSE IF i > Len(a) THEN TRUE
  ELSE IF a[i] = b[i] THEN StrLessFrom(a, b, i + 1)
  ELSE a[i] < b[i]

\* Lexicographic order on strings, the order of datastore key names.
StrLess(a, b) == StrLessFrom(a, b, 1)

NoneStr == <<78, 111, 110, 101>>      \* "None"
AllHosts == <<97, 108, 108>>          \* "all"
MinusSign == <<45>>                   \* "-"
SixZeros == <<48, 48, 48, 48, 48, 48>>

(***************************************************************************)
(* Python integers                                                         *)
(***************************************************************************)

Million == 1000000

Long(hi, lo) == [hi |-> hi, lo |-> lo]

\* 2**34 = 17179869184
TwoTo34 == Long(17179, 869184)

LongSub(a, b) ==
  IF a.lo >= b.lo THEN Long(a.hi - b.hi, a.lo - b.lo)
  ELSE Long(a.hi - b.hi - 1, a.lo - b.lo + Million)

LongLess(a, b) == a.hi < b.hi \/ (a.hi = b.hi /\ a.lo < b.lo)

LongLeq(a, b) == a = b \/ LongLess(a, b)

LongIsNeg(a) == a.hi < 0

\* The magnitude of a negative value.
LongAbs(a) ==
  IF ~LongIsNeg(a) THEN a
  ELSE IF a.lo = 0 THEN Long(-a.hi, 0)
  ELSE Long(-a.hi - 1, Million - a.lo)

RECURSIVE Digits(_)
\* The decimal digits of a natural number, without leading zeros.
Digits(n) == IF n < 10 THEN <<48 + n>> ELSE Digits(n \div 10) \o <<48 + (n % 10)>>

\* The six decimal digits of a number below Million (an inner group of digits).
Pad6(n) ==
  [i \in 1..6 |->
     48 + (CASE i = 1 -> (n \div 100000) % 10
             [] i = 2 -> (n \div 10000) % 10
             [] i = 3 -> (n \div 1000) % 10
             [] i = 4 -> (n \div 100) % 10
             [] i = 5 -> (n \div 10) % 10
             [] OTHER -> n % 10)]

\* str(v) for a Python integer v >= 0.
StrNat(v) == IF v.hi = 0 THEN Digits(v.lo) ELSE Digits(v.hi) \o Pad6(v.lo)

\* str(v * 1000000): the digits of v followed by six zeros, "0" when v is 0,
\* with a leading "-" when v is negative.
StrTimesMillion(v) ==
  IF v = Long(0, 0) THEN <<48>>
  ELSE IF LongIsNeg(v) THEN MinusSign \o StrNat(LongAbs(v)) \o SixZeros
  ELSE StrNat(v) \o SixZeros

\* reversed_time = (2**34 - the_time) * 1000000; str(reversed_time)
ReversedTimeStr(the_time) == StrTimesMillion(LongSub(TwoTo34, the_time))

\* key_name = service_name + host + str(reversed_time)
KeyName(service_name, host, the_time) ==
  service_name \o host \o ReversedTimeStr(the_time)

\* datetime.datetime.fromtimestamp(the_time) raises ValueError outside the
\* years 1..9999.
MinTime == Long(-62136, 403200)       \* -62135596800, 0001-01-01
MaxTime == Long(253402, 300799)       \* 253402300799, 9999-12-31 23:59:59

FromTimestampOk(the_time) == LongLeq(MinTime, the_time) /\ LongLeq(the_time, MaxTime)

(***************************************************************************)
(* State                                                                   *)
(***************************************************************************)

VARIABLES
  services,   \* LoggedService entities: service name -> [hosts]
  logs,       \* RequestLogLine entities: key name -> [service_name, host, app_logs]
  logIndex,   \* the key names of the RequestLogLine entities in key order
  upload,     \* LogUploadPage.post in progress, one per concurrent request
  nUploads,   \* number of upload requests received
  view,       \* the last response of LogServiceHostPage.get to the viewer
  codec,      \* two timestamps and the key fragments computed for them
  taskq,      \* the task queue: the /status/refresh tasks not yet run
  refreshes,  \* the executions of update_all in progress
  statusCache,\* the snapshot the status views read
  deployed,   \* the applications the deployment runs
  nRequests,  \* number of requests received that touch the status cache
  logged,     \* whether the last request that enqueues refreshes logged an exception
  unauthorized, \* whether the caller of the last request to the app pages lacked the permission for it
  page        \* StatusPage.get in progress: the snapshots its reads came from

logVars == <<services, logs, logIndex, upload, nUploads, view>>

refreshVars == <<taskq, refreshes, statusCache, deployed, nRequests, logged, unauthorized, page>>

vars == <<services, logs, logIndex, upload, nUploads, view, codec,
          taskq, refreshes, statusCache, deployed, nRequests, logged, unauthorized, page>>

\* Python's None.
None == [none |-> TRUE]

\* Concurrent upload requests (App Engine serves requests concurrently).
Writers == {"w1", "w2"}

\* Upload requests received in one run of the model: of the concurrent
\* uploads, and of the uploads that fill the pages of the viewer.
MaxUploads == 3
MaxPageUploads == 2

\* Model.get_by_id(id): the stored entity, or None.
GetById(kind, id) == IF id \in DOMAIN kind THEN kind[id] ELSE None

\* entity.put(): the whole entity replaces what is stored under its key.
Put(kind, id, entity) == [k \in DOMAIN kind \cup {id} |-> IF k = id THEN entity ELSE kind[k]]

RECURSIVE InsertKey(_, _, _)
\* The sorted sequence keys with k put in its place, at position i or later.
InsertKey(keys, k, i) ==
  IF i > Len(keys) \/ StrLess(k, keys[i])
    THEN SubSeq(keys, 1, i - 1) \o <<k>> \o SubSeq(keys, i, Len(keys))
    ELSE InsertKey(keys, k, i + 1)

\* The datastore keeps the entities of a kind in key order: a put of a new
\* key enters it in its place.
IndexPut(index, id) ==
  IF \E j \in 1..Len(index) : index[j] = id THEN index ELSE InsertKey(index, id, 1)

IdleUpload ==
  [pc |-> "idle", service_name |-> <<>>, host |-> <<>>, log_lines |-> <<>>,
   service |-> None, branch |-> "none", i |-> 0, key_name |-> <<>>, log_line |-> None]

(***************************************************************************)
(* LogUploadPage.post                                                      *)
(***************************************************************************)

\* The request body is decoded and the service is looked up.
UploadGetService(w, payloads, limit) ==
  /\ upload[w].pc \in {"idle", "done", "error"}
  /\ nUploads < limit
  /\ \E data \in payloads :
       upload' = [upload EXCEPT ![w] =
         [IdleUpload EXCEPT !.pc = "register",
                            !.service_name = data.service_name,
                            !.host = data.host,
                            !.log_lines = data.logs,
                            !.service = GetById(services, data.service_name)]]
  /\ nUploads' = nUploads + 1
  /\ UNCHANGED <<services, logs, logIndex, view, codec, refreshVars>>

\* host in service.hosts
HostRegisteredNever(hosts, host) == FALSE

HostRegistered(hosts, host) == \E j \in 1..Len(hosts) : hosts[j] = host

\* hosts after service.hosts.append(host)
AppendHost(hosts, host) == Append(hosts, host)

\* The service is registered, or the host added to it, or nothing is written.
UploadRegister(w) ==
  LET u == upload[w]
      next_pc == IF Len(u.log_lines) = 0 THEN "done" ELSE "get_log"
  IN
  /\ u.pc = "register"
  /\ IF u.service = None
       THEN /\ services' = Put(services, u.service_name, [hosts |-> <<u.host>>])
            /\ upload' = [upload EXCEPT ![w].pc = next_pc, ![w].i = 1,
                                        ![w].branch = "new",
                                        ![w].service = [hosts |-> <<u.host>>]]
       ELSE IF ~HostRegistered(u.service.hosts, u.host)
         THEN LET service == [hosts |-> AppendHost(u.service.hosts, u.host)]
              IN /\ services' = Put(services, u.service_name, service)
                 /\ upload' = [upload EXCEPT ![w].pc = next_pc, ![w].i = 1,
                                             ![w].branch = "append",
                                             ![w].service = service]
         ELSE /\ services' = services
              /\ upload' = [upload EXCEPT ![w].pc = next_pc, ![w].i = 1,
                                          ![w].branch = "known"]
  /\ UNCHANGED <<logs, logIndex, nUploads, view, codec, refreshVars>>

\* A RequestLogLine(id = key_name) with its service_name and host set.
NewRequestLogLine(service_name, host) ==
  [service_name |-> service_name, host |-> host, app_logs |-> <<>>]

\* The record of the next log line is looked up by its key, or created.
UploadGetLogLine(w) ==
  LET u == upload[w]
      the_time == u.log_lines[u.i].timestamp
      key_name == KeyName(u.service_name, u.host, the_time)
      found == GetById(logs, key_name)
  IN
  /\ u.pc = "get_log"
  /\ upload' = [upload EXCEPT ![w].pc = "put_log",
                              ![w].key_name = key_name,
                              ![w].log_line = IF found = None
                                              THEN NewRequestLogLine(u.service_name, u.host)
                                              ELSE found]
  /\ UNCHANGED <<services, logs, logIndex, nUploads, view, codec, refreshVars>>

\* The AppLogLine built from one log_line_dict.
NewAppLogLine(log_line_dict) ==
  [message |-> log_line_dict.message, level |-> log_line_dict.level,
   timestamp |-> log_line_dict.timestamp]

\* app_logs after log_line.app_logs.append(app_log_line)
AppendAppLogInFront(app_logs, app_log_line) == <<app_log_line>> \o app_logs

AppendAppLogUnlessPresent(app_logs, app_log_line) ==
  IF \E j \in 1..Len(app_logs) : app_logs[j] = app_log_line
    THEN app_logs
    ELSE Append(app_logs, app_log_line)

AppendAppLog(app_logs, app_log_line) == Append(app_logs, app_log_line)

\* The log line is appended to the record and the record is written; a
\* timestamp datetime cannot represent aborts the request before the write.
UploadPutLogLine(w) ==
  LET u == upload[w]
      log_line_dict == u.log_lines[u.i]
  IN
  /\ u.pc = "put_log"
  /\ IF FromTimestampOk(log_line_dict.timestamp)
       THEN LET log_line == [u.log_line EXCEPT !.app_logs =
                               AppendAppLog(@, NewAppLogLine(log_line_dict))]
            IN /\ logs' = Put(logs, u.key_name, log_line)
               /\ logIndex' = IndexPut(logIndex, u.key_name)
               /\ upload' = [upload EXCEPT
                    ![w].pc = IF u.i = Len(u.log_lines) THEN "done" ELSE "get_log",
                    ![w].i = IF u.i = Len(u.log_lines) THEN u.i ELSE u.i + 1,
                    ![w].log_line = log_line]
               /\ view' = [view EXCEPT !.appended = (view.pc = "page")]
       ELSE /\ upload' = [upload EXCEPT ![w].pc = "error"]
            /\ UNCHANGED <<logs, logIndex, view>>
  /\ UNCHANGED <<services, nUploads, codec, refreshVars>>

(***************************************************************************)
(* LogServiceHostPage.get                                                  *)
(***************************************************************************)

\* The number of logs presented on each page.
LOGS_PER_PAGE == 20

\* A datastore cursor is a position in the scan: the key of the last result
\* it has passed.  urlsafe() puts it into a string, Cursor(urlsafe=...) reads
\* it back.
CursorTag == <<67>>

Urlsafe(cursor) == CursorTag \o cursor.pos

IsUrlsafeAlways(encoded) == TRUE

IsUrlsafe(encoded) == Len(encoded) >= 1 /\ SubSeq(encoded, 1, 1) = CursorTag

CursorFromUrlsafe(encoded) == [pos |-> Tail(encoded)]

\* next_cursor as the response carries it and the next request sends it back.
CursorValue(next_cursor) == IF next_cursor = None THEN NoneStr ELSE Urlsafe(next_cursor)

\* start_cursor for the request parameter next_cursor.
StartCursorDropped(encoded_cursor) == None

StartCursor(encoded_cursor) ==
  IF encoded_cursor # <<>> /\ encoded_cursor # NoneStr
    THEN CursorFromUrlsafe(encoded_cursor)
    ELSE None

\* Whether the query selects the RequestLogLine stored under key k.
SelectsAnyHost(service_name, host, k) == logs[k].service_name = service_name

Selects(service_name, host, k) ==
  /\ logs[k].service_name = service_name
  /\ (host = AllHosts \/ logs[k].host = host)

\* The keys of the RequestLogLines the query selects, in key order: a query
\* with equality filters only returns its results in key order.
Matching(service_name, host) ==
  LET Sel(k) == Selects(service_name, host, k) IN SelectSeq(logIndex, Sel)

\* Whether the scan resumes at key k: strictly after the cursor's position.
AfterCursor(start_cursor, k) == start_cursor = None \/ StrLess(start_cursor.pos, k)

\* query.fetch_page(page_size, produce_cursors=True, start_cursor=...): the
\* outcomes [results, cursor, more] it can return over the sorted keys.  more
\* is true when results remain; after a full page that ends the scan it may
\* be true as well (a hint).  After an empty page the cursor is None or stays.
FetchPage(keys, page_size, start_cursor) ==
  LET Resume(k) == AfterCursor(start_cursor, k)
      rest == SelectSeq(keys, Resume)
      n == IF Len(rest) < page_size THEN Len(rest) ELSE page_size
      results == SubSeq(rest, 1, n)
      cursors == IF n > 0 THEN {[pos |-> results[n]]} ELSE {None, start_cursor}
      mores == IF Len(rest) > n THEN {TRUE}
               ELSE IF n = page_size THEN {TRUE, FALSE}
               ELSE {FALSE}
  IN {[results |-> results, cursor |-> c, more |-> m] : c \in cursors, m \in mores}

\* What the helper says about the caller: the cloud administrator, the owner
\* of a service, anybody else.
Callers(service_name) ==
  {[is_cloud_admin |-> TRUE, apps_user_is_admin_on |-> {}],
   [is_cloud_admin |-> FALSE, apps_user_is_admin_on |-> {service_name}],
   [is_cloud_admin |-> FALSE, apps_user_is_admin_on |-> {}]}

\* Whether the handler calls self.redirect('/', self.response).
Redirects(caller, service_name) ==
  ~caller.is_cloud_admin /\ service_name \notin caller.apps_user_is_admin_on

NoView ==
  [pc |-> "none", service_name |-> <<>>, host |-> <<>>, cursor |-> <<>>,
   query |-> <<>>, next_cursor |-> <<>>, is_more |-> FALSE,
   redirected |-> FALSE, pages |-> <<>>, appended |-> FALSE]

\* Whether Cursor(urlsafe=encoded_cursor) is called and raises.
CursorRaises(encoded_cursor) ==
  /\ encoded_cursor # <<>>
  /\ encoded_cursor # NoneStr
  /\ ~IsUrlsafe(encoded_cursor)

\* handle_500: the exception is logged and the response is the error page
\* with status 500; no page of records is rendered.
Handle500(service_name, host, encoded_cursor) ==
  [NoView EXCEPT !.pc = "error500", !.service_name = service_name,
                 !.host = host, !.cursor = encoded_cursor]

Entity(k) == [id |-> k, service_name |-> logs[k].service_name,
              host |-> logs[k].host, app_logs |-> logs[k].app_logs]

\* The handler: a redirect is set for a caller who may not see the service,
\* then the page is fetched and rendered.  pages collects the keys of the
\* pages of one walk, which starts with a request without a cursor.
LogServiceHostPageGet(service_name, host, encoded_cursor, pages) ==
  IF CursorRaises(encoded_cursor)
    THEN view' = Handle500(service_name, host, encoded_cursor)
    ELSE
  \E out \in FetchPage(Matching(service_name, host), LOGS_PER_PAGE,
                       StartCursor(encoded_cursor)) :
    \E redirected \in {Redirects(caller, service_name) : caller \in Callers(service_name)} :
      view' = [pc |-> "page", service_name |-> service_name, host |-> host,
               cursor |-> encoded_cursor,
               query |-> [j \in 1..Len(out.results) |-> Entity(out.results[j])],
               next_cursor |-> CursorValue(out.cursor),
               is_more |-> out.more,
               redirected |-> redirected,
               pages |-> pages \o out.results,
               appended |-> IF encoded_cursor = <<>> THEN FALSE ELSE view.appended]

\* The first page: a request without next_cursor.
ViewFirst(filters) ==
  /\ \E f \in filters :
       LogServiceHostPageGet(f.service_name, f.host, <<>>, <<>>)
  /\ UNCHANGED <<services, logs, logIndex, upload, nUploads, codec, refreshVars>>

\* The next page: the link of the last response is followed.
ViewNext ==
  /\ view.pc = "page"
  /\ view.is_more
  /\ LogServiceHostPageGet(view.service_name, view.host, view.next_cursor, view.pages)
  /\ UNCHANGED <<services, logs, logIndex, upload, nUploads, codec, refreshVars>>

\* A page asked for with the next_cursor parameter the client chooses.
ViewAt(filters, cursors) ==
  /\ \E f \in filters, encoded_cursor \in cursors :
       LogServiceHostPageGet(f.service_name, f.host, encoded_cursor, <<>>)
  /\ UNCHANGED <<services, logs, logIndex, upload, nUploads, codec, refreshVars>>

(***************************************************************************)
(* The key fragment of two timestamps                                      *)
(***************************************************************************)

NoCodec == [pc |-> "none", t1 |-> Long(0, 0), t2 |-> Long(0, 0), k1 |-> <<>>, k2 |-> <<>>]

\* The key fragments of two log lines are computed as the upload computes
\* them; a log line whose timestamp datetime rejects is not stored.
EncodePair ==
  /\ codec.pc = "input"
  /\ codec' = IF FromTimestampOk(codec.t1) /\ FromTimestampOk(codec.t2)
                THEN [codec EXCEPT !.pc = "encoded",
                                   !.k1 = ReversedTimeStr(codec.t1),
                                   !.k2 = ReversedTimeStr(codec.t2)]
                ELSE [codec EXCEPT !.pc = "rejected"]
  /\ UNCHANGED <<logVars, refreshVars>>

(***************************************************************************)
(* The status cache and its refresh                                        *)
(***************************************************************************)

\* The frequency, in seconds, of the tasks that update the cache.
REFRESH_WAIT_TIME == 10

\* Requests served in one run of the model that enqueue or run a refresh.
MaxRequests == 2

\* Executions of update_all in progress at one time: the requests the
\* deployment serves concurrently.
MaxInFlight == 2

\* The applications users upload and delete.
Apps == {"app1"}

\* The executions of update_all that have not failed.
Running == {r \in refreshes : r.pc # "failed"}

\* The refreshes in progress, by their number.
InFlight == {r.id : r \in Running}

\* taskqueue.add(url='/status/refresh', countdown=...): a task that is due at
\* once remembers the refreshes in progress when it arrives.
NewTask(countdown) ==
  [countdown |-> countdown, during |-> IF countdown = 0 THEN InFlight ELSE {}]

\* The outcomes of "try: taskqueue.add(...) ... except Exception": each add
\* may raise, which skips the adds after it.  The queue is a bag of tasks:
\* it runs the tasks that are due in any order.
EnqueueOne(q) == {q, q (+) SetToBag({NewTask(0)})}

EnqueueTwoAtOnce(q) ==
  {q, q (+) SetToBag({NewTask(0)}),
   q (+) SetToBag({NewTask(0)}) (+) SetToBag({NewTask(0)})}

EnqueueTwo(q) ==
  {q, q (+) SetToBag({NewTask(0)}),
   q (+) SetToBag({NewTask(0)}) (+) SetToBag({NewTask(REFRESH_WAIT_TIME)})}

\* "except Exception as err: logging.exception(err)": of the n adds of a
\* handler, which turned the queue before into the queue after, one raised.
Raised(before, after, n) == BagCardinality(after) < BagCardinality(before) + n

\* if self.dstore.can_upload_apps()
MayUpload(can_upload_apps) == can_upload_apps

\* AppUploadPage.post with a file: a caller who can upload apps uploads one;
\* a successful upload enqueues a refresh now and one REFRESH_WAIT_TIME later.
AppUpload ==
  /\ nRequests < MaxRequests
  /\ \E can_upload_apps \in BOOLEAN, app \in Apps, success \in BOOLEAN :
       /\ unauthorized' = ~can_upload_apps
       /\ IF MayUpload(can_upload_apps) /\ success
            THEN /\ deployed' = deployed \cup {app}
                 /\ \E q \in EnqueueTwo(taskq) :
                      /\ taskq' = q
                      /\ logged' = Raised(taskq, q, 2)
                 /\ nRequests' = nRequests + 1
            ELSE /\ logged' = FALSE
                 /\ UNCHANGED <<deployed, taskq, nRequests>>
  /\ UNCHANGED <<logVars, codec, refreshes, statusCache, page>>

\* dstore.delete_app_from_datastore(appname): the application leaves the
\* cached application data.
DeleteAppFromDatastore(cache, appname) ==
  IF cache = None THEN cache
  ELSE [cache EXCEPT !.application_info = @ \ {appname}]

\* self.dstore.is_user_cloud_admin() or appname in self.dstore.get_owned_apps()
MayDeleteAnybody(caller, appname) == TRUE

MayDelete(caller, appname) ==
  caller.is_cloud_admin \/ appname \in caller.apps_user_is_admin_on

\* AppDeletePage.post: the cloud administrator or an owner of the application
\* deletes it; a refresh is enqueued now and one REFRESH_WAIT_TIME later.
AppDelete ==
  /\ nRequests < MaxRequests
  /\ \E appname \in Apps : \E caller \in Callers(appname) :
       /\ unauthorized' = (~caller.is_cloud_admin /\ appname \notin caller.apps_user_is_admin_on)
       /\ IF MayDelete(caller, appname)
            THEN /\ deployed' = deployed \ {appname}
                 /\ statusCache' = DeleteAppFromDatastore(statusCache, appname)
                 /\ \E q \in EnqueueTwo(taskq) :
                      /\ taskq' = q
                      /\ logged' = Raised(taskq, q, 2)
                 /\ nRequests' = nRequests + 1
            ELSE /\ logged' = FALSE
                 /\ UNCHANGED <<deployed, statusCache, taskq, nRequests>>
  /\ UNCHANGED <<logVars, codec, refreshes, page>>

\* AuthorizePage.post: for the cloud administrator a refresh is enqueued.
Authorize ==
  /\ nRequests < MaxRequests
  /\ \E is_user_cloud_admin \in BOOLEAN :
       IF is_user_cloud_admin
         THEN /\ \E q \in EnqueueOne(taskq) :
                   /\ taskq' = q
                   /\ logged' = Raised(taskq, q, 1)
              /\ nRequests' = nRequests + 1
         ELSE /\ logged' = FALSE
              /\ UNCHANGED <<taskq, nRequests>>
  /\ UNCHANGED <<logVars, codec, refreshes, statusCache, deployed, unauthorized, page>>

\* The countdown of a waiting task runs out: the task is due, and arrives.
Tick ==
  /\ \E t \in BagToSet(taskq) :
       /\ t.countdown > 0
       /\ taskq' = (taskq (-) SetToBag({t})) (+) SetToBag({NewTask(0)})
  /\ UNCHANGED <<logVars, codec, refreshes, statusCache, deployed, nRequests, logged, unauthorized, page>>

\* The sub-fetches of update_all.
SubFetches == {"status_info", "database_info", "api_status", "application_info"}

\* What a sub-fetch returns when it succeeds: the applications, or what the
\* fleet that runs them reports.
Fetched(name) ==
  IF name = "application_info" THEN deployed ELSE Cardinality(deployed)

\* The refreshes that have not ended and those a task still refers to.
Referred ==
  {r.id : r \in refreshes} \cup UNION {t.during : t \in BagToSet(taskq)}

\* update_all starts: a refresh is in progress.
StartRefresh ==
  LET id == CHOOSE n \in 1..(Cardinality(Referred) + 1) :
              /\ n \notin Referred
              /\ \A m \in 1..(n - 1) : m \in Referred
  IN
  /\ Cardinality(refreshes) < MaxInFlight
  /\ refreshes' = refreshes \cup {[id |-> id, pc |-> "gather", got |-> None]}

\* StatusRefreshPage.get / post: the task queue runs a task that is due.
RunTask ==
  /\ \E t \in BagToSet(taskq) :
       /\ t.countdown = 0
       /\ taskq' = taskq (-) SetToBag({t})
       /\ StartRefresh
  /\ UNCHANGED <<logVars, codec, statusCache, deployed, nRequests, logged, unauthorized, page>>

\* StatusPage.get with forcerefresh: update_all runs in the web request.
ForceRefresh ==
  /\ nRequests < MaxRequests
  /\ nRequests' = nRequests + 1
  /\ StartRefresh
  /\ UNCHANGED <<logVars, codec, taskq, statusCache, deployed, logged, unauthorized, page>>

\* The snapshot after update_all: nothing when a sub-fetch failed, what was
\* gathered otherwise.
PublishedOrCleared(cache, failed, got) == got

\* The snapshot after update_all: what was there before when a sub-fetch
\* failed, what was gathered otherwise.
Published(cache, failed, got) == IF failed THEN cache ELSE got

\* The execution r of update_all after one of its sub-fetches failed.
NeverEnding(r) == [r EXCEPT !.pc = "stuck"]

Failed(r) == [r EXCEPT !.pc = "failed"]

\* update_all gathers the machine stats, the database health, the API status
\* and the application info; a sub-fetch that fails ends update_all.
Gather ==
  /\ \E r \in refreshes, fails \in BOOLEAN :
       /\ r.pc = "gather"
       /\ IF fails
            THEN /\ refreshes' = (refreshes \ {r}) \cup {Failed(r)}
                 /\ statusCache' = Published(statusCache, TRUE, None)
            ELSE /\ refreshes' = (refreshes \ {r}) \cup
                      {[r EXCEPT !.pc = "publish",
                                 !.got = [name \in SubFetches |-> Fetched(name)]]}
                 /\ UNCHANGED statusCache
  /\ UNCHANGED <<logVars, codec, taskq, deployed, nRequests, logged, unauthorized, page>>

\* update_all ends after every sub-fetch succeeded: the snapshot is replaced
\* as a whole.
CompleteRefresh ==
  /\ \E r \in refreshes :
       /\ r.pc = "publish"
       /\ refreshes' = refreshes \ {r}
       /\ statusCache' = Published(statusCache, FALSE, r.got)
  /\ UNCHANGED <<logVars, codec, taskq, deployed, nRequests, logged, unauthorized, page>>

\* The cycle whose sub-fetch failed ends: the failure is logged.
FailRefresh ==
  /\ \E r \in refreshes :
       /\ r.pc = "failed"
       /\ refreshes' = refreshes \ {r}
  /\ UNCHANGED <<logVars, codec, taskq, statusCache, deployed, nRequests, logged, unauthorized, page>>

\* The reads of StatusPage.get, in the order in which it makes them.
StatusReads == <<"status_info", "database_info", "api_status", "application_info">>

NoPage == [pc |-> "none", read |-> << >>]

\* StatusPage.get, after the refresh it may have forced: the page is built
\* from four reads of the cached data.
StatusPageGet ==
  /\ page.pc # "reading"
  /\ page' = [pc |-> "reading", read |-> << >>]
  /\ UNCHANGED <<logVars, codec, taskq, refreshes, statusCache, deployed,
                 nRequests, logged, unauthorized>>

\* The next of dstore.get_status_info(), get_database_info(), get_api_status()
\* and get_application_info(): it reads what is cached at this moment.
StatusRead ==
  /\ page.pc = "reading"
  /\ page' = [pc |-> IF Len(page.read) + 1 = Len(StatusReads)
                       THEN "rendered" ELSE "reading",
              read |-> Append(page.read, statusCache)]
  /\ UNCHANGED <<logVars, codec, taskq, refreshes, statusCache, deployed,
                 nRequests, logged, unauthorized>>

\* What a read of one field returns from the cached data: its value, or
\* None when nothing is cached.
GetInfo(cache, name) ==
  IF cache = None THEN None ELSE [value |-> cache[name]]

\* What the rendered page shows for its j-th read.
Rendered(j) == GetInfo(page.read[j], StatusReads[j])

(***************************************************************************)
(* Requests                                                                *)
(***************************************************************************)

SvcS == <<115>>     \* "s"
SvcT == <<116>>     \* "t"
HostG == <<103>>    \* "g"
HostH == <<104>>    \* "h"

LogLine(the_time, message, level) ==
  [timestamp |-> the_time, message |-> message, level |-> level]

Payload(service_name, host, log_lines) ==
  [service_name |-> service_name, host |-> host, logs |-> log_lines]

\* Upload requests of one or two log lines, two of them for the same second.
SmallBatches ==
  {<<LogLine(Long(0, 1000), "warn", 3)>>,
   <<LogLine(Long(0, 2000), "boot", 1)>>,
   <<LogLine(Long(0, 1000), "boot", 1), LogLine(Long(0, 1000), "warn", 3)>>}

SmallPayloads ==
  {Payload(SvcS, host, batch) : host \in {HostG, HostH}, batch \in SmallBatches}

\* An upload request of n log lines, one per second; LOGS_PER_PAGE of them
\* fill a page of the viewer, and one more record overflows it.
RECURSIVE Batch(_)
Batch(n) ==
  IF n = 0 THEN <<>> ELSE Append(Batch(n - 1), LogLine(Long(0, 1000 + n), "tick", 1))

PagePayloads ==
  {Payload(SvcS, HostH, Batch(LOGS_PER_PAGE)),
   Payload(SvcS, HostH, <<LogLine(Long(0, 2000), "boot", 1)>>),
   Payload(SvcS, HostG, <<LogLine(Long(0, 1000), "warn", 3)>>),
   Payload(SvcT, HostH, <<LogLine(Long(0, 2000), "boot", 1)>>)}

\* The batch of each of two writers that upload at the same time for one
\* service and host: three log lines of one second, or two of one second
\* around one of another; no message is in both batches.
OrderPayloads(w) ==
  LET a == IF w = "w1" THEN "a1" ELSE "b1"
      b == IF w = "w1" THEN "a2" ELSE "b2"
      c == IF w = "w1" THEN "a3" ELSE "b3"
  IN {Payload(SvcS, HostG, <<LogLine(Long(0, 1000), a, 1), LogLine(Long(0, 1000), b, 1),
                             LogLine(Long(0, 1000), c, 1)>>),
      Payload(SvcS, HostG, <<LogLine(Long(0, 1000), a, 1), LogLine(Long(0, 2000), b, 1),
                             LogLine(Long(0, 1000), c, 1)>>)}

\* Uploads of one log line whose timestamp is a present-day one, one whose
\* key fragment is a character shorter, 2**34, 2**34 + 1, and one that
\* datetime cannot represent.
WindowPayloads ==
  {Payload(SvcS, HostG, <<LogLine(t, "edge", 1)>>) :
     t \in {Long(1700, 0), Long(7179, 869185), Long(17179, 869184),
            Long(17179, 869185), Long(253402, 300800)}}

\* Upload requests that are sent more than once: one with the same log line
\* twice around a log line of another second, one with that log line alone,
\* and one of another host.
TwiceBatches ==
  <<Payload(SvcS, HostG, <<LogLine(Long(0, 1000), "warn", 3),
                           LogLine(Long(0, 2000), "boot", 1),
                           LogLine(Long(0, 1000), "warn", 3)>>),
    Payload(SvcS, HostG, <<LogLine(Long(0, 1000), "warn", 3)>>),
    Payload(SvcS, HostH, <<LogLine(Long(0, 1000), "warn", 3)>>)>>

TwicePayloads == {TwiceBatches[b] : b \in DOMAIN TwiceBatches}

SvcST == SvcS \o SvcT     \* "st"
HostTG == SvcT \o HostG   \* "tg"

\* Upload requests of one log line for services and hosts whose names run
\* into each other: "s" on "tg" and "st" on "g".
CollidePayloads ==
  {Payload(SvcS, HostTG, <<LogLine(Long(0, 1000), "warn", 3)>>),
   Payload(SvcST, HostG, <<LogLine(Long(0, 1000), "boot", 1)>>),
   Payload(SvcS, HostG, <<LogLine(Long(0, 1000), "warn", 3)>>),
   Payload(SvcST, HostG, <<LogLine(Long(0, 2000), "boot", 1)>>)}

\* The services and hosts the viewer asks for.
PageFilters ==
  {[service_name |-> SvcS, host |-> HostH],
   [service_name |-> SvcS, host |-> HostG],
   [service_name |-> SvcS, host |-> AllHosts],
   [service_name |-> SvcT, host |-> AllHosts]}

(***************************************************************************)
(* Specifications                                                          *)
(***************************************************************************)

Init ==
  /\ services = << >>
  /\ logs = << >>
  /\ logIndex = << >>
  /\ upload = [w \in Writers |-> IdleUpload]
  /\ nUploads = 0
  /\ view = NoView
  /\ codec = NoCodec
  /\ taskq = EmptyBag
  /\ refreshes = {}
  /\ statusCache = None
  /\ deployed = {}
  /\ nRequests = 0
  /\ logged = FALSE
  /\ unauthorized = FALSE
  /\ page = NoPage

\* Concurrent log uploads.
Next ==
  \/ \E w \in Writers : UploadGetService(w, SmallPayloads, MaxUploads)
  \/ \E w \in Writers : UploadRegister(w)
  \/ \E w \in Writers : UploadGetLogLine(w)
  \/ \E w \in Writers : UploadPutLogLine(w)

Spec == Init /\ [][Next]_vars

\* Two writers, each uploading one batch of its own, at the same time.
NextOrder ==
  \/ \E w \in Writers :
       /\ upload[w].pc = "idle"
       /\ UploadGetService(w, OrderPayloads(w), Cardinality(Writers))
  \/ \E w \in Writers : UploadRegister(w)
  \/ \E w \in Writers : UploadGetLogLine(w)
  \/ \E w \in Writers : UploadPutLogLine(w)

SpecOrder == Init /\ [][NextOrder]_vars

\* One writer sending upload requests one after the other, the same request
\* any number of times.
NextTwice ==
  \/ UploadGetService("w1", TwicePayloads, MaxUploads)
  \/ UploadRegister("w1")
  \/ UploadGetLogLine("w1")
  \/ UploadPutLogLine("w1")

SpecTwice == Init /\ [][NextTwice]_vars

\* One writer uploading for several services and hosts.
NextCollide ==
  \/ UploadGetService("w1", CollidePayloads, MaxUploads)
  \/ UploadRegister("w1")
  \/ UploadGetLogLine("w1")
  \/ UploadPutLogLine("w1")

SpecCollide == Init /\ [][NextCollide]_vars

\* Uploads of log lines with timestamps at the edges of the key's range.
NextWindow ==
  \/ UploadGetService("w1", WindowPayloads, MaxUploads)
  \/ UploadRegister("w1")
  \/ UploadGetLogLine("w1")
  \/ UploadPutLogLine("w1")

SpecWindow == Init /\ [][NextWindow]_vars

\* Uploads that fill the store, and a viewer walking through the pages.
NextPage ==
  \/ UploadGetService("w1", PagePayloads, MaxPageUploads)
  \/ UploadRegister("w1")
  \/ UploadGetLogLine("w1")
  \/ UploadPutLogLine("w1")
  \/ ViewFirst(PageFilters)
  \/ ViewNext

SpecPage == Init /\ [][NextPage]_vars

\* The next_cursor parameters a client sends: none, "None", the cursor after
\* a stored record, and strings that are no cursor ("x" and "-1").
InvalidCursors == {<<120>>, <<45, 49>>}

ClientCursors ==
  {<<>>, NoneStr, Urlsafe([pos |-> KeyName(SvcS, HostG, Long(0, 1000))])}
  \cup InvalidCursors

CursorFilters ==
  {[service_name |-> SvcS, host |-> HostG],
   [service_name |-> SvcS, host |-> AllHosts]}

\* Uploads, and a viewer who sends cursors of its own choice.
NextCursor ==
  \/ UploadGetService("w1", SmallPayloads, MaxPageUploads)
  \/ UploadRegister("w1")
  \/ UploadGetLogLine("w1")
  \/ UploadPutLogLine("w1")
  \/ ViewAt(CursorFilters, ClientCursors)

SpecCursor == Init /\ [][NextCursor]_vars

\* The timestamps whose key fragments are compared.
CodecTimes ==
  {Long(-62136, 403200), Long(-1, 999999), Long(0, 0), Long(0, 1), Long(0, 1000),
   Long(0, 2000), Long(1, 0), Long(1700, 0), Long(7179, 869183), Long(7179, 869184),
   Long(7179, 869185), Long(17179, 869183), Long(17179, 869184), Long(17179, 869185),
   Long(253402, 300799), Long(253402, 300800)}

InitCodec ==
  /\ services = << >>
  /\ logs = << >>
  /\ logIndex = << >>
  /\ upload = [w \in Writers |-> IdleUpload]
  /\ nUploads = 0
  /\ view = NoView
  /\ codec \in {[pc |-> "input", t1 |-> a, t2 |-> b, k1 |-> <<>>, k2 |-> <<>>] :
                  a \in CodecTimes, b \in CodecTimes}
  /\ LongLess(codec.t1, codec.t2)
  /\ taskq = EmptyBag
  /\ refreshes = {}
  /\ statusCache = None
  /\ deployed = {}
  /\ nRequests = 0
  /\ logged = FALSE
  /\ unauthorized = FALSE
  /\ page = NoPage

\* The key fragments of pairs of timestamps.
NextCodec == EncodePair

SpecCodec == InitCodec /\ [][NextCodec]_vars

\* The refresh of the status cache.
NextRefresh ==
  \/ AppUpload
  \/ AppDelete
  \/ Authorize
  \/ Tick
  \/ RunTask
  \/ ForceRefresh
  \/ Gather
  \/ CompleteRefresh
  \/ FailRefresh

SpecRefresh == Init /\ [][NextRefresh]_vars

\* The refresh of the status cache when a request that has started is
\* served to its end: an execution of update_all goes on until it ends.
SpecRefreshFair ==
  /\ SpecRefresh
  /\ WF_vars(Gather)
  /\ WF_vars(CompleteRefresh)
  /\ WF_vars(FailRefresh)

\* The refresh of the status cache and a status page that reads it.
NextStatus ==
  \/ AppUpload
  \/ AppDelete
  \/ Authorize
  \/ Tick
  \/ RunTask
  \/ ForceRefresh
  \/ Gather
  \/ CompleteRefresh
  \/ FailRefresh
  \/ StatusPageGet
  \/ StatusRead

SpecStatus == Init /\ [][NextStatus]_vars

(***************************************************************************)
(* Properties                                                              *)
(***************************************************************************)

\* The number of places of a sequence that hold e.
CountIn(seq, e) == Cardinality({j \in 1..Len(seq) : seq[j] = e})

\* A walk of the viewer during which no record was written.
QuietWalk == view.pc = "page" /\ ~view.appended

\* C1: a walk from no cursor along the returned cursors, with no appends in
\* between, returns only records the query selects, none of them twice; a
\* page that announces more is not empty (so the walk ends after at most as
\* many such pages as there are records), and at the page whose is_more is
\* false every selected record has been returned exactly once.
C1_WalkReturnsEachRecordOnce ==
  QuietWalk =>
    LET matching == Matching(view.service_name, view.host) IN
    /\ \A j \in 1..Len(view.pages) :
         /\ CountIn(view.pages, view.pages[j]) = 1
         /\ CountIn(matching, view.pages[j]) = 1
    /\ view.is_more => Len(view.query) > 0
    /\ ~view.is_more =>
         \A j \in 1..Len(matching) : CountIn(view.pages, matching[j]) = 1

\* A walk of more than one page has ended.
C1_Witness ==
  /\ QuietWalk
  /\ ~view.is_more
  /\ Len(view.pages) > LOGS_PER_PAGE
  /\ Len(view.pages) > Len(view.query)

\* C2: in the records a walk has returned, no record comes before a record
\* with a strictly later timestamp, for one host and for all hosts.
C2_NewestFirst ==
  QuietWalk =>
    \A i \in 1..Len(view.pages) : \A j \in (i + 1)..Len(view.pages) :
      \A a \in 1..Len(logs[view.pages[i]].app_logs) :
        \A b \in 1..Len(logs[view.pages[j]].app_logs) :
          ~LongLess(logs[view.pages[i]].app_logs[a].timestamp,
                    logs[view.pages[j]].app_logs[b].timestamp)

\* The step in which writer w writes the record of its log line, having
\* read what is stored under the key (no other write came in between).
SequentialPut(w) ==
  /\ upload[w].pc = "put_log"
  /\ upload'[w].pc \in {"get_log", "done"}
  /\ upload[w].log_line =
       (IF upload[w].key_name \in DOMAIN logs
          THEN logs[upload[w].key_name]
          ELSE NewRequestLogLine(upload[w].service_name, upload[w].host))

\* The entries stored under key k, none when there is no such record.
StoredLogs(k) == IF k \in DOMAIN logs THEN logs[k].app_logs ELSE <<>>

\* Every record holding an entry of (service, host, timestamp) is one record.
OneRecordPerKey ==
  \A k1 \in DOMAIN logs, k2 \in DOMAIN logs :
    (/\ logs[k1].service_name = logs[k2].service_name
     /\ logs[k1].host = logs[k2].host
     /\ \E a \in 1..Len(logs[k1].app_logs), b \in 1..Len(logs[k2].app_logs) :
          logs[k1].app_logs[a].timestamp = logs[k2].app_logs[b].timestamp)
    => k1 = k2

\* C3: an entry appended for a (service, host, timestamp) that has a record
\* goes to the end of that record's entries, which are kept as they were, and
\* no second record is made: two entries of one key, from one batch or from
\* two successive uploads, end up in one record in the order appended.
C3_SameKeyAppends ==
  /\ []OneRecordPerKey
  /\ [][\A w \in Writers :
          SequentialPut(w) =>
            /\ logs'[upload[w].key_name].app_logs =
                 Append(StoredLogs(upload[w].key_name),
                        NewAppLogLine(upload[w].log_lines[upload[w].i]))
            /\ DOMAIN logs' = DOMAIN logs \cup {upload[w].key_name}
            /\ \A k \in DOMAIN logs : k # upload[w].key_name => logs'[k] = logs[k]]_vars

\* One record holds two entries of the same second with different messages.
C3_Witness ==
  \E k \in DOMAIN logs :
    /\ Len(logs[k].app_logs) = 2
    /\ logs[k].app_logs[1].timestamp = logs[k].app_logs[2].timestamp
    /\ logs[k].app_logs[1].message = "boot"
    /\ logs[k].app_logs[2].message = "warn"

\* The step in which writer w registers its host, having read the service
\* entity that is stored (no other write came in between).
SequentialRegister(w) ==
  /\ upload[w].pc = "register"
  /\ upload'[w].pc # "register"
  /\ upload[w].service = GetById(services, upload[w].service_name)

\* C5: no host list holds a host twice, and registering a host the service
\* already has writes nothing: the host list stays as it is.
C5_RegisterKnownHostNoOp ==
  /\ [](\A s \in DOMAIN services : \A j \in 1..Len(services[s].hosts) :
          CountIn(services[s].hosts, services[s].hosts[j]) = 1)
  /\ [][\A w \in Writers :
          (/\ SequentialRegister(w)
           /\ upload[w].service # None
           /\ HostRegistered(upload[w].service.hosts, upload[w].host))
          => services' = services]_vars

\* A second upload for (s, h) found h registered, and h is the only host.
C5_Witness ==
  \E w \in Writers :
    /\ upload[w].pc = "done"
    /\ upload[w].branch = "known"
    /\ services[upload[w].service_name].hosts = <<upload[w].host>>

\* C6: when uploads for one service have completed, the host of each is in
\* the service's host set, however the uploads interleaved.
C6_NoRegistrationLost ==
  (\A w \in Writers : upload[w].pc = "done") =>
    \A w \in Writers :
      /\ upload[w].service_name \in DOMAIN services
      /\ HostRegistered(services[upload[w].service_name].hosts, upload[w].host)

\* The entries of the completed upload of writer w that go to key k and
\* equal entry e.
Uploaded(w, k, e) ==
  IF upload[w].pc # "done" THEN 0
  ELSE Cardinality({j \in 1..Len(upload[w].log_lines) :
         /\ KeyName(upload[w].service_name, upload[w].host,
                    upload[w].log_lines[j].timestamp) = k
         /\ NewAppLogLine(upload[w].log_lines[j]) = e})

\* C7: the record of a key holds every entry of every completed upload to
\* that key, however the writers interleaved.
C7_NoEntryLost ==
  \A w \in Writers : \A j \in 1..Len(upload[w].log_lines) :
    upload[w].pc = "done" =>
      LET k == KeyName(upload[w].service_name, upload[w].host,
                       upload[w].log_lines[j].timestamp)
          e == NewAppLogLine(upload[w].log_lines[j])
      IN CountIn(StoredLogs(k), e) >= Uploaded("w1", k, e) + Uploaded("w2", k, e)

\* C4: of two accepted timestamps t1 < t2 the key fragment of t1 is greater
\* than the key fragment of t2 in the order of strings, and the two fragments
\* have the same number of characters.
C4_KeyOrder ==
  codec.pc = "encoded" =>
    /\ StrLess(codec.k2, codec.k1)
    /\ Len(codec.k1) = Len(codec.k2)

\* C8: a refresh in which a sub-fetch fails writes nothing to the status
\* cache, neither when the sub-fetch fails nor when the cycle ends; a refresh
\* changes the cache only by publishing the whole of what it gathered.
C8_FailedRefreshKeepsSnapshot ==
  [][/\ \A r \in refreshes :
          (r.pc = "gather" /\ [r EXCEPT !.pc = "failed"] \in refreshes')
          => statusCache' = statusCache
     /\ \A r \in refreshes :
          (r.pc = "failed" /\ r \notin refreshes') => statusCache' = statusCache
     /\ (statusCache' # statusCache /\ nRequests' = nRequests)
          => \E r \in refreshes :
               /\ r.pc = "publish"
               /\ r \notin refreshes'
               /\ statusCache' = r.got]_vars

\* A sub-fetch has failed in a refresh that started when a snapshot with an
\* application was cached, and that snapshot is what the cache returns.
C8_Witness ==
  /\ statusCache # None
  /\ statusCache.application_info # {}
  /\ \E r \in refreshes : r.pc = "failed"

\* The tasks that are due and arrived while refresh id was in progress: the
\* refreshes that follow it, one per task.
FollowUps(id) ==
  {t \in BagToSet(taskq) : t.countdown = 0 /\ id \in t.during}

\* C9: the triggers that arrive while a refresh is in progress leave one
\* refresh to run after it, however many they are.
C9_OneFollowUp ==
  \A id \in Referred :
    /\ Cardinality(FollowUps(id)) <= 1
    /\ \A t \in FollowUps(id) : CopiesIn(t, taskq) <= 1

\* C10: at most one execution of update_all is in progress.
C10_OneRefreshInFlight == Cardinality(Running) <= 1

\* C11: the four values a rendered status page shows are the four fields of
\* one snapshot that was cached while the page was read (or the page shows
\* that nothing is cached).
C11_PageFromOneSnapshot ==
  page.pc = "rendered" =>
    \E i \in 1..Len(page.read) :
      \A j \in 1..Len(page.read) :
        Rendered(j) = GetInfo(page.read[i], StatusReads[j])

C13_PageOfTheQuery ==
  view.pc = "page" =>
    /\ LOGS_PER_PAGE = 20
    /\ Len(view.query) <= 20
    /\ \A j \in 1..Len(view.query) :
         /\ view.query[j].service_name = view.service_name
         /\ view.host # AllHosts => view.query[j].host = view.host
    /\ \A k \in DOMAIN logs :
         (/\ DOMAIN logs = {k}
          /\ Len(logs[k].app_logs) = 1
          /\ QuietWalk
          /\ Len(view.pages) = Len(view.query)
          /\ view.service_name = logs[k].service_name
          /\ view.host = logs[k].host)
         => (view.query = <<Entity(k)>> /\ ~view.is_more)

\* The store holds the one record of one upload of one entry "boot", and the
\* first page of the query for its service and host has been returned.
C13_Witness ==
  /\ QuietWalk
  /\ Len(view.pages) = Len(view.query)
  /\ view.host # AllHosts
  /\ \E k \in DOMAIN logs :
       /\ DOMAIN logs = {k}
       /\ Len(logs[k].app_logs) = 1
       /\ logs[k].app_logs[1].message = "boot"
       /\ view.service_name = logs[k].service_name
       /\ view.host = logs[k].host
       /\ Len(view.query) = 1
       /\ ~view.is_more

C15_OnlyRefreshTaskWrites ==
  [][(StatusPageGet \/ StatusRead \/ ForceRefresh \/ AppUpload \/ AppDelete)
       => (statusCache' = statusCache /\ refreshes' = refreshes)]_vars

\* Whether sequence a is the beginning of sequence b.
IsPrefix(a, b) == Len(a) <= Len(b) /\ SubSeq(b, 1, Len(a)) = a

\* C16: the entries of a record only grow at the end: in every step each
\* stored record stays stored, and its entries before the step are the
\* beginning of its entries after the step.
C16_AppendOnly ==
  [][\A k \in DOMAIN logs :
       /\ k \in DOMAIN logs'
       /\ IsPrefix(logs[k].app_logs, logs'[k].app_logs)]_vars

\* The places of entry e in the record stored under key k.
PlacesOf(k, e) == {p \in 1..Len(StoredLogs(k)) : StoredLogs(k)[p] = e}

\* C17: of two log lines of one writer's batch that go to the same key, the
\* one the batch holds later is never stored before the one it holds earlier,
\* however the writers interleave.
C17_OwnOrderKept ==
  \A w \in Writers :
    \A i \in 1..Len(upload[w].log_lines) : \A j \in (i + 1)..Len(upload[w].log_lines) :
      LET u == upload[w]
          k == KeyName(u.service_name, u.host, u.log_lines[i].timestamp)
      IN k = KeyName(u.service_name, u.host, u.log_lines[j].timestamp) =>
           \A p \in PlacesOf(k, NewAppLogLine(u.log_lines[i])) :
             \A q \in PlacesOf(k, NewAppLogLine(u.log_lines[j])) : p < q

\* One record holds two entries of one writer with an entry of the other
\* writer between them.
C17_Witness ==
  \E k \in DOMAIN logs :
    \E p \in 1..Len(logs[k].app_logs) :
      \E q \in (p + 1)..Len(logs[k].app_logs) :
        \E r \in (q + 1)..Len(logs[k].app_logs) :
          /\ logs[k].app_logs[p].message = "a1"
          /\ logs[k].app_logs[q].message \in {"b1", "b2", "b3"}
          /\ logs[k].app_logs[r].message \in {"a2", "a3"}

\* C18: whenever executions of update_all are in progress, a moment comes at
\* which all of them have ended, whether their sub-fetches succeeded or one
\* failed, and the refresher is idle again; the end of a failed one leaves
\* the cached snapshot as it was.
C18_RefreshEnds ==
  /\ (refreshes # {}) ~> (refreshes = {})
  /\ [][FailRefresh => statusCache' = statusCache]_vars

\* The one refresh in progress has failed a sub-fetch and has not ended yet,
\* no task is waiting, and the snapshot of an earlier refresh is cached.
C18_Witness ==
  /\ \E r \in refreshes : refreshes = {r} /\ r.pc = "failed"
  /\ taskq = EmptyBag
  /\ statusCache # None

\* C19: the host of every stored record is in the host list of the service
\* the record names, and a service that is registered stays registered.
C19_RecordHostRegistered ==
  /\ [](\A k \in DOMAIN logs :
          /\ logs[k].service_name \in DOMAIN services
          /\ HostRegistered(services[logs[k].service_name].hosts, logs[k].host))
  /\ [][DOMAIN services \subseteq DOMAIN services']_vars

\* The number of characters of the key fragment of a present-day timestamp.
KeyWidth == Len(ReversedTimeStr(Long(1700, 0)))

\* C20: no record holds an entry whose timestamp is outside the window of
\* the key: 2**34 minus the timestamp is positive and its key fragment has
\* the fixed width.
C20_OutOfWindowRejected ==
  \A k \in DOMAIN logs : \A j \in 1..Len(logs[k].app_logs) :
    LET t == logs[k].app_logs[j].timestamp IN
    /\ LongLess(t, TwoTo34)
    /\ Len(ReversedTimeStr(t)) = KeyWidth

\* The number of log lines of upload request data that go to the record of
\* key k as the entry e.
EntriesOf(data, k, e) ==
  Cardinality({j \in 1..Len(data.logs) :
                 /\ KeyName(data.service_name, data.host, data.logs[j].timestamp) = k
                 /\ NewAppLogLine(data.logs[j]) = e})

\* The sum of times[b] * EntriesOf(TwiceBatches[b], k, e) over b in 1..n.
RECURSIVE SubmittedEntries(_, _, _, _)
SubmittedEntries(times, n, k, e) ==
  IF n = 0 THEN 0
  ELSE SubmittedEntries(times, n - 1, k, e) + times[n] * EntriesOf(TwiceBatches[n], k, e)

RECURSIVE SumOf(_, _)
SumOf(times, n) == IF n = 0 THEN 0 ELSE SumOf(times, n - 1) + times[n]

TwiceKeys ==
  DOMAIN logs \cup
  UNION {{KeyName(TwiceBatches[b].service_name, TwiceBatches[b].host,
                  TwiceBatches[b].logs[j].timestamp) :
            j \in 1..Len(TwiceBatches[b].logs)} : b \in DOMAIN TwiceBatches}

TwiceEntries(k) ==
  {StoredLogs(k)[j] : j \in 1..Len(StoredLogs(k))} \cup
  UNION {{NewAppLogLine(TwiceBatches[b].logs[j]) : j \in 1..Len(TwiceBatches[b].logs)} :
           b \in DOMAIN TwiceBatches}

\* C21: entries are never deduplicated: once the requests sent so far are
\* over, every record holds each entry as many times as the requests put
\* it there, each request counted as often as it was sent.
C21_NoDeduplication ==
  upload["w1"].pc \in {"idle", "done"} =>
    \E times \in [DOMAIN TwiceBatches -> 0..nUploads] :
      /\ SumOf(times, Len(TwiceBatches)) = nUploads
      /\ \A k \in TwiceKeys : \A e \in TwiceEntries(k) :
            CountIn(StoredLogs(k), e) = SubmittedEntries(times, Len(TwiceBatches), k, e)

\* C21: the request with the same log line twice has been sent twice and
\* nothing else, and the record of that second holds the entry four times.
C21_Witness ==
  /\ upload["w1"].pc = "done"
  /\ nUploads = 2
  /\ upload["w1"].log_lines = TwiceBatches[1].logs
  /\ Len(StoredLogs(KeyName(SvcS, HostG, Long(0, 1000)))) = 4
  /\ Len(StoredLogs(KeyName(SvcS, HostG, Long(0, 2000)))) = 2

\* C22: a record is shared only by log lines of one service and host: the
\* record an upload appends an entry to carries the service_name and host of
\* that upload.
C22_RecordOfOneServiceAndHost ==
  [][\A w \in Writers :
       (upload[w].pc = "put_log" /\ logs' # logs /\ upload'[w] # upload[w]) =>
         /\ logs'[upload[w].key_name].service_name = upload[w].service_name
         /\ logs'[upload[w].key_name].host = upload[w].host]_vars

\* C23: a caller who is neither the cloud administrator nor an owner of the
\* service is shown no log records of it: the response that carries the
\* redirect to '/' renders no record.
C23_RedirectShowsNoRecords ==
  (view.pc = "page" /\ view.redirected) => view.query = << >>

\* C24: a request to upload or delete an application by a caller without
\* the permission for it deploys and removes nothing, leaves the cached data
\* as it is, and enqueues and starts no refresh.
C24_RefusedChangesNothing ==
  [][(~unauthorized /\ unauthorized') =>
       UNCHANGED <<deployed, statusCache, taskq, refreshes>>]_vars

\* C24: a caller without permission has been refused while an application
\* was deployed and in the cached data, and it still is; no task is queued.
C24_Witness ==
  /\ unauthorized
  /\ \E app \in Apps :
       /\ app \in deployed
       /\ statusCache # None
       /\ app \in statusCache.application_info
  /\ taskq = EmptyBag
  /\ refreshes = {}

====
